---- MODULE Spec2Model ----
(***************************************************************************)
(* A model of the RDB snapshot decoder (package rdb): the buffered byte    *)
(* cursor, the length/integer codec, the string codec, the list/set body   *)
(* decoder, the header and metadata stage and the Reader session           *)
(* (NewReader, Read, setDBNo).                                             *)
(*                                                                         *)
(* Representation.                                                         *)
(*   - A byte is a number in 0..255; a byte slice is a sequence of bytes.  *)
(*     A nil slice is the distinct value Nil.                              *)
(*   - A uint64 is kept at its full width as four 16-bit limbs, most       *)
(*     significant first (TLC's integers are 32 bits wide).                *)
(*   - An error value is one of the strings in ErrKind; "panic" is the     *)
(*     outcome of a run-time abort (makeslice: len out of range).          *)
(*   - The bufio.Reader is the record [pos, w, last]: pos is the offset of *)
(*     the next unread byte of the source, w the offset up to which the    *)
(*     source has been copied into the reader's buffer (pos <= w), last    *)
(*     what the reader did last, which is what UnreadByte goes by.         *)
(*     The source is a reader that hands over everything asked for and     *)
(*     reports end of data on its own (bytes.Reader, a file).              *)
(***************************************************************************)
EXTENDS Integers, Sequences, FiniteSets, TLC

VARIABLES
    src,       \* the bytes of the underlying source
    rd,        \* the bufio.Reader over src: [pos, w, last]
    sess,      \* "none" before NewReader, then "open" or "failed"
    Version,   \* Reader.Version
    Metadata,  \* Reader.Metadata: a set of <<key, value>> pairs, one per key
    dbno,      \* Reader.dbno
    out,       \* what the last call returned
    hist       \* what the calls returned, for a source opened twice

vars == <<src, rd, sess, Version, Metadata, dbno, out, hist>>

(***************************************************************************)
(* Bounds of the model.                                                    *)
(***************************************************************************)
\* size of the bufio.Reader's buffer (4096 in the Go library), scaled down
\* so that a field can straddle the end of the buffered bytes
BufSize == 12
\* most bytes following the first byte of a length-codec input
MaxTail == 9
\* most pieces of a session's source after its header
MaxChunks == 3
\* most strings written after the element count of a list-decoder input
MaxStrings == 2
\* most pieces after the version in a source of the header stage
MaxAux == 3
\* most Read calls logged per session when a source is opened twice
MaxReads == 3

(***************************************************************************)
(* Program constants.                                                      *)
(***************************************************************************)
opAux == 250
opResizeDB == 251
opExpiretimeMs == 252
opExpiretime == 253
opSelectDB == 254
opEOF == 255

String == 0
List == 1
Set == 2

minVersion == 7
maxVersion == 8

Byte == 0..255
ErrKind == {"nil", "EOF", "ErrFormat", "ErrNotSupported", "ErrBadOpCode",
            "ErrVersion", "panic"}
Nil == <<-1>>

Min(a, b) == IF a < b THEN a ELSE b

(***************************************************************************)
(* uint64 as four 16-bit limbs.                                            *)
(***************************************************************************)
Limb == 2^16
U64(n) == <<0, 0, n \div Limb, n % Limb>>
Zero64 == <<0, 0, 0, 0>>

\* the value fits TLC's integers
Fits(v) == v[1] = 0 /\ v[2] = 0 /\ v[3] < 16384
Num(v) == v[3] * Limb + v[4]
\* a number standing for a value too large to write down: larger than every
\* source and every buffer of the model
Huge == 1000000
Clamp(v) == IF Fits(v) THEN Min(Num(v), Huge) ELSE Huge

\* lexicographic v > u
Gt64(v, u) ==
    \E i \in 1..4 : v[i] > u[i] /\ \A j \in 1..(i - 1) : v[j] = u[j]

\* v * k modulo 2^64, k < 2^15
Mul64(v, k) ==
    LET x4 == v[4] * k
        x3 == v[3] * k + (x4 \div Limb)
        x2 == v[2] * k + (x3 \div Limb)
        x1 == v[1] * k + (x2 \div Limb)
    IN  <<x1 % Limb, x2 % Limb, x3 % Limb, x4 % Limb>>

(***************************************************************************)
(* pad and binary.BigEndian.Uint64.                                        *)
(***************************************************************************)
pad(bs, size) ==
    LET offset == size - Len(bs)
    IN  [i \in 1..size |-> IF i > offset THEN bs[i - offset] ELSE 0]

BigEndianUint64(b) ==
    <<b[1] * 256 + b[2], b[3] * 256 + b[4], b[5] * 256 + b[6], b[7] * 256 + b[8]>>

(***************************************************************************)
(* bufio.Reader over src.                                                  *)
(***************************************************************************)
\* pos: the offset of the next byte; w: the offset the buffer is filled to;
\* last: what the reader did last, as far as UnreadByte goes: "one" after
\* a read of one byte, "many" after a longer one, "unread" after an
\* UnreadByte, "none" at the start and after Peek, and "bad" from the first
\* UnreadByte on that did not come right after a read of one byte
NewBufio == [pos |-> 0, w |-> 0, last |-> "none"]

\* the bytes of src at offsets from..(to - 1)
Span(from, to) == SubSeq(src, from + 1, to)

Did(c, what) == IF c.last = "bad" THEN "bad" ELSE what

\* ReadByte: one byte, refilling the empty buffer first
ReadByte(c) ==
    IF c.pos < c.w
    THEN [b |-> src[c.pos + 1], err |-> "nil",
          c |-> [c EXCEPT !.pos = @ + 1, !.last = Did(c, "one")]]
    ELSE IF c.pos >= Len(src)
    THEN [b |-> 0, err |-> "EOF", c |-> c]
    ELSE [b |-> src[c.pos + 1], err |-> "nil",
          c |-> [pos |-> c.pos + 1, w |-> Min(c.pos + BufSize, Len(src)),
                 last |-> Did(c, "one")]]

\* Read(p) with len(p) = n: at most one read of the source, and only when the
\* buffer is empty; otherwise whatever part of p the buffered bytes fill
Read(c, n) ==
    IF n = 0
    THEN [bs |-> <<>>, n |-> 0, err |-> "nil", c |-> c]
    ELSE IF c.pos = c.w
    THEN IF c.pos >= Len(src)
         THEN [bs |-> <<>>, n |-> 0, err |-> "EOF", c |-> c]
         ELSE IF n >= BufSize
         THEN \* large read, empty buffer: straight from the source
              LET k == Min(n, Len(src) - c.pos)
              IN  [bs |-> Span(c.pos, c.pos + k), n |-> k, err |-> "nil",
                   c |-> [pos |-> c.pos + k, w |-> c.pos + k,
                          last |-> Did(c, "many")]]
         ELSE LET w2 == Min(c.pos + BufSize, Len(src))
                  k == Min(n, w2 - c.pos)
              IN  [bs |-> Span(c.pos, c.pos + k), n |-> k, err |-> "nil",
                   c |-> [pos |-> c.pos + k, w |-> w2,
                          last |-> Did(c, IF n = 1 THEN "one" ELSE "many")]]
    ELSE LET k == Min(n, c.w - c.pos)
         IN  [bs |-> Span(c.pos, c.pos + k), n |-> k, err |-> "nil",
              c |-> [c EXCEPT !.pos = @ + k,
                              !.last = Did(c, IF n = 1 THEN "one" ELSE "many")]]

\* Peek(1): the next byte, not consumed, refilling the empty buffer first
Peek1(c) ==
    IF c.pos < c.w
    THEN [b |-> src[c.pos + 1], err |-> "nil",
          c |-> [c EXCEPT !.last = Did(c, "none")]]
    ELSE IF c.pos >= Len(src)
    THEN [b |-> 0, err |-> "EOF", c |-> [c EXCEPT !.last = Did(c, "none")]]
    ELSE [b |-> src[c.pos + 1], err |-> "nil",
          c |-> [pos |-> c.pos, w |-> Min(c.pos + BufSize, Len(src)),
                 last |-> Did(c, "none")]]

\* UnreadByte, its result ignored as the callers do: the last byte read is
\* given back after a read; after anything else nothing is
UnreadByte(c) ==
    CASE c.last = "one" -> [c EXCEPT !.pos = @ - 1, !.last = "unread"]
      [] c.last = "many" -> [c EXCEPT !.pos = @ - 1, !.last = "bad"]
      [] OTHER -> [c EXCEPT !.last = "bad"]

(***************************************************************************)
(* The decoders below are written one step per definition: a definition    *)
(* that ends in Then takes what the step before it returned and carries on *)
(* from there, as the code does after each `if err != nil`.                *)
(***************************************************************************)

(***************************************************************************)
(* readLenghtEncodedValue: [val, raw, err, c].                             *)
(***************************************************************************)
LenFail(e, c) == [val |-> Zero64, raw |-> Nil, err |-> e, c |-> c]
LenOk(v, raw, c) == [val |-> v, raw |-> raw, err |-> "nil", c |-> c]

\* b << 2 >> 2 on a byte
Low6(b) == ((b * 4) % 256) \div 4

\* mode 01, after the second ReadByte
len14Then(b, r2) ==
    IF r2.err # "nil" THEN LenFail(r2.err, r2.c)
    ELSE LenOk(BigEndianUint64(pad(<<Low6(b), r2.b>>, 8)), <<b, r2.b>>, r2.c)

\* mode 10 with a short read reported as the end of the input
lenWideThenShortIsEOF(b, nb, r) ==
    IF r.err # "nil" THEN LenFail(r.err, r.c)
    ELSE IF r.n < nb THEN LenFail("EOF", r.c)
    ELSE LenOk(BigEndianUint64(pad(r.bs, 8)), <<b>> \o r.bs, r.c)

\* mode 10, after r.Read(bs) with len(bs) = nb
lenWideThen(b, nb, r) ==
    IF r.err # "nil" THEN LenFail(r.err, r.c)
    ELSE IF r.n < nb THEN LenFail("ErrFormat", r.c)
    ELSE LenOk(BigEndianUint64(pad(r.bs, 8)), <<b>> \o r.bs, r.c)

\* mode 10 with every selector but 0 taken for the 8-byte width
lenWideNoDefault(b, c) ==
    CASE Low6(b) = 0 -> lenWideThen(b, 4, Read(c, 4))
      [] OTHER -> lenWideThen(b, 8, Read(c, 8))

\* mode 10: the switch on the width selector
lenWide(b, c) ==
    CASE Low6(b) = 0 -> lenWideThen(b, 4, Read(c, 4))
      [] Low6(b) = 1 -> lenWideThen(b, 8, Read(c, 8))
      [] OTHER -> LenFail("ErrFormat", c)

\* mode 11 with the 32-bit integer's payload taken for 3 bytes
lenSpecialWrongSizes(b, c) ==
    CASE Low6(b) = 0 -> LenOk(U64(1), <<b>>, c)
      [] Low6(b) = 1 -> LenOk(U64(2), <<b>>, c)
      [] Low6(b) = 2 -> LenOk(U64(3), <<b>>, c)
      [] Low6(b) = 3 -> LenFail("ErrNotSupported", c)
      [] OTHER -> LenFail("ErrFormat", c)

\* mode 11: the special string sub-encodings
lenSpecial(b, c) ==
    CASE Low6(b) = 0 -> LenOk(U64(1), <<b>>, c)
      [] Low6(b) = 1 -> LenOk(U64(2), <<b>>, c)
      [] Low6(b) = 2 -> LenOk(U64(4), <<b>>, c)
      [] Low6(b) = 3 -> LenFail("ErrNotSupported", c)
      [] OTHER -> LenFail("ErrFormat", c)

\* the switch on b >> 6
lenMode(b, c) ==
    CASE b \div 64 = 0 -> LenOk(BigEndianUint64(pad(<<Low6(b)>>, 8)), <<b>>, c)
      [] b \div 64 = 1 -> len14Then(b, ReadByte(c))
      [] b \div 64 = 2 -> lenWide(b, c)
      [] OTHER -> lenSpecial(b, c)

lenFirstThen(r1) ==
    IF r1.err # "nil" THEN LenFail(r1.err, r1.c) ELSE lenMode(r1.b, r1.c)

readLenghtEncodedValue(c) == lenFirstThen(ReadByte(c))

(***************************************************************************)
(* make([]T, n) with n a uint64: the run time aborts when n elements of    *)
(* elemsize bytes exceed what can be addressed (2^48 bytes on a 64-bit     *)
(* build); below that the allocation is taken to succeed.                  *)
(***************************************************************************)
\* the largest n with n * elemsize <= 2^48, for the two element sizes used:
\* a byte (1) and a slice header (24)
MaxElems(elemsize) ==
    IF elemsize = 1 THEN <<1, 0, 0, 0>> ELSE <<0, 2730, 43690, 43690>>
MakeSlicePanics(n, elemsize) == Gt64(n, MaxElems(elemsize))

(***************************************************************************)
(* readStringEncodedValue: [key, raw, err, c].                             *)
(***************************************************************************)
StrFail(e, c) == [key |-> Nil, raw |-> Nil, err |-> e, c |-> c]

\* the string's raw bytes without its length prefix
strReadThenNoPrefix(lraw, l, rb) ==
    IF rb.err # "nil" THEN StrFail(rb.err, rb.c)
    ELSE IF rb.n < l THEN StrFail("EOF", rb.c)
    ELSE [key |-> rb.bs, raw |-> rb.bs, err |-> "nil", c |-> rb.c]

\* after r.Read(buf) with len(buf) = l
strReadThen(lraw, l, rb) ==
    IF rb.err # "nil" THEN StrFail(rb.err, rb.c)
    ELSE IF rb.n < l THEN StrFail("EOF", rb.c)
    ELSE [key |-> rb.bs, raw |-> lraw \o rb.bs, err |-> "nil", c |-> rb.c]

strLenThen(rl) ==
    IF rl.err # "nil" THEN StrFail(rl.err, rl.c)
    ELSE IF MakeSlicePanics(rl.val, 1) THEN StrFail("panic", rl.c)
    ELSE strReadThen(rl.raw, Clamp(rl.val), Read(rl.c, Clamp(rl.val)))

readStringEncodedValue(c) == strLenThen(readLenghtEncodedValue(c))

(***************************************************************************)
(* readListEncodedValue: [list, raw, err, c].                              *)
(***************************************************************************)
ListFail(e, c) == [list |-> Nil, raw |-> Nil, err |-> e, c |-> c]

\* the loop: n more strings, appended to rsl and to raw
RECURSIVE readElements(_, _, _, _)
\* the loop putting each string in front of those read before it
listElemThenReversed(n, rsl, raw, rs) ==
    IF rs.err # "nil" THEN ListFail(rs.err, rs.c)
    ELSE readElements(rs.c, n - 1, <<rs.key>> \o rsl, raw \o rs.raw)

listElemThen(n, rsl, raw, rs) ==
    IF rs.err # "nil" THEN ListFail(rs.err, rs.c)
    ELSE readElements(rs.c, n - 1, Append(rsl, rs.key), raw \o rs.raw)

readElements(c, n, rsl, raw) ==
    IF n = 0 THEN [list |-> rsl, raw |-> raw, err |-> "nil", c |-> c]
    ELSE listElemThen(n, rsl, raw, readStringEncodedValue(c))

listLenThen(rl) ==
    IF rl.err # "nil" THEN ListFail(rl.err, rl.c)
    ELSE IF MakeSlicePanics(rl.val, 24) THEN ListFail("panic", rl.c)
    ELSE readElements(rl.c, Clamp(rl.val), <<>>, rl.raw)

readListEncodedValue(c) == listLenThen(readLenghtEncodedValue(c))

(***************************************************************************)
(* readKeyValuePair: [ttl, vt, key, value, err, c], and with them the      *)
(* value type the switch at the end was entered with (tag; -1 when the     *)
(* call returned before it).                                               *)
(***************************************************************************)
KvFail(e, c, tag) ==
    [ttl |-> Zero64, vt |-> 0, key |-> Nil, value |-> Nil, err |-> e, c |-> c,
     tag |-> tag]

kvValueThen(ttl, vt, key, rv) ==
    IF rv.err # "nil" THEN KvFail(rv.err, rv.c, vt)
    ELSE [ttl |-> ttl, vt |-> vt, key |-> key, value |-> rv.raw,
          err |-> "nil", c |-> rv.c, tag |-> vt]

\* the switch on the value type with the String case decoded like a list
kvKeyThenStringAsList(ttl, vt, rk) ==
    IF rk.err # "nil" THEN KvFail(rk.err, rk.c, -1)
    ELSE IF vt = List \/ vt = Set \/ vt = String
    THEN kvValueThen(ttl, vt, rk.key, readListEncodedValue(rk.c))
    ELSE KvFail("ErrNotSupported", rk.c, vt)

\* the switch on the value type, the key already read
kvKeyThen(ttl, vt, rk) ==
    IF rk.err # "nil" THEN KvFail(rk.err, rk.c, -1)
    ELSE IF vt = List \/ vt = Set
    THEN kvValueThen(ttl, vt, rk.key, readListEncodedValue(rk.c))
    ELSE KvFail("ErrNotSupported", rk.c, vt)

\* after the Read of the value type byte
kvTagThen(ttl, r2) ==
    IF r2.err # "nil" THEN KvFail(r2.err, r2.c, -1)
    ELSE kvKeyThen(ttl, r2.bs[1], readStringEncodedValue(r2.c))

\* ttl = t
kvTtlMsThen(t) ==
    IF t.err # "nil" THEN KvFail(t.err, t.c, -1)
    ELSE kvTagThen(t.val, Read(t.c, 1))

\* ttl = t * 1000
kvTtlSecThen(t) ==
    IF t.err # "nil" THEN KvFail(t.err, t.c, -1)
    ELSE kvTagThen(Mul64(t.val, 1000), Read(t.c, 1))

\* the switch on the first byte, the default case calling UnreadByte twice
kvFirstThenUnreadsTwice(r1) ==
    IF r1.err # "nil" THEN KvFail(r1.err, r1.c, -1)
    ELSE CASE r1.bs[1] = opExpiretimeMs ->
                kvTtlMsThen(readLenghtEncodedValue(r1.c))
           [] r1.bs[1] = opExpiretime ->
                kvTtlSecThen(readLenghtEncodedValue(r1.c))
           [] OTHER -> kvTagThen(Zero64, Read(UnreadByte(UnreadByte(r1.c)), 1))

\* the switch on the first byte
kvFirstThen(r1) ==
    IF r1.err # "nil" THEN KvFail(r1.err, r1.c, -1)
    ELSE CASE r1.bs[1] = opExpiretimeMs ->
                kvTtlMsThen(readLenghtEncodedValue(r1.c))
           [] r1.bs[1] = opExpiretime ->
                kvTtlSecThen(readLenghtEncodedValue(r1.c))
           [] OTHER -> kvTagThen(Zero64, Read(UnreadByte(r1.c), 1))

readKeyValuePair(c) == kvFirstThen(Read(c, 1))

(***************************************************************************)
(* setDBNo: [err, dbno, c], dbno the session's number afterwards.          *)
(***************************************************************************)
DbFail(e, old, c) == [err |-> e, dbno |-> old, c |-> c]

\* the selected number not kept
dbDoneNotKept(db, c) == [err |-> "nil", dbno |-> Zero64, c |-> c]

\* r.dbno = db
dbDone(db, c) == [err |-> "nil", dbno |-> db, c |-> c]

dbHint2Then(old, db, h2) ==
    IF h2.err # "nil" THEN DbFail(h2.err, old, h2.c) ELSE dbDone(db, h2.c)

dbHint1Then(old, db, h1) ==
    IF h1.err # "nil" THEN DbFail(h1.err, old, h1.c)
    ELSE dbHint2Then(old, db, readLenghtEncodedValue(h1.c))

\* the byte that follows the database number never put back
dbNextThenNoUnread(old, db, r) ==
    IF r.err # "nil" THEN DbFail(r.err, old, r.c)
    ELSE IF r.bs[1] = opResizeDB
    THEN dbHint1Then(old, db, readLenghtEncodedValue(r.c))
    ELSE dbDone(db, r.c)

\* after the Read of the byte that follows the database number
dbNextThen(old, db, r) ==
    IF r.err # "nil" THEN DbFail(r.err, old, r.c)
    ELSE IF r.bs[1] = opResizeDB
    THEN dbHint1Then(old, db, readLenghtEncodedValue(r.c))
    ELSE dbDone(db, UnreadByte(r.c))

\* r.dbno = db as soon as the number is decoded
dbNumberThenAssignsFirst(old, db) ==
    IF db.err # "nil" THEN DbFail(db.err, old, db.c)
    ELSE dbNextThen(db.val, db.val, Read(db.c, 1))

dbNumberThen(old, db) ==
    IF db.err # "nil" THEN DbFail(db.err, old, db.c)
    ELSE dbNextThen(old, db.val, Read(db.c, 1))

\* the byte that is not the opcode kept as read
dbFirstThenNoUnread(old, r) ==
    IF r.err # "nil" THEN DbFail(r.err, old, r.c)
    ELSE IF r.bs[1] # opSelectDB
    THEN DbFail("ErrBadOpCode", old, r.c)
    ELSE dbNumberThen(old, readLenghtEncodedValue(r.c))

\* after the Read of the opcode byte
dbFirstThen(old, r) ==
    IF r.err # "nil" THEN DbFail(r.err, old, r.c)
    ELSE IF r.bs[1] # opSelectDB
    THEN DbFail("ErrBadOpCode", old, UnreadByte(r.c))
    ELSE dbNumberThen(old, readLenghtEncodedValue(r.c))

setDBNo(c, old) == dbFirstThen(old, Read(c, 1))

(***************************************************************************)
(* Reader.Read: [dbno, ttl, vt, key, value, err], with the session's       *)
(* database number (sdb) and reader (c) afterwards, the reader as it was   *)
(* when readKeyValuePair was called (kv; Nil when it was not) and the tag  *)
(* readKeyValuePair reported.                                              *)
(***************************************************************************)
ReadFail(e, sdb, c, kv, tag) ==
    [dbno |-> Zero64, ttl |-> Zero64, vt |-> 0, key |-> Nil, value |-> Nil,
     err |-> e, sdb |-> sdb, c |-> c, kv |-> kv, tag |-> tag]

rdPairThen(sdb, from, kv) ==
    IF kv.err # "nil" THEN ReadFail(kv.err, sdb, kv.c, from, kv.tag)
    ELSE [dbno |-> sdb, ttl |-> kv.ttl, vt |-> kv.vt, key |-> kv.key,
          value |-> kv.value, err |-> "nil", sdb |-> sdb, c |-> kv.c,
          kv |-> from, tag |-> kv.tag]

rdSelectThen(s) ==
    IF s.err # "nil" THEN ReadFail(s.err, s.dbno, s.c, Nil, -1)
    ELSE rdPairThen(s.dbno, s.c, readKeyValuePair(s.c))

\* the end of the source reported as one more record, an empty set
rdPeekThenRecordAtEnd(old, p) ==
    IF p.err # "nil"
    THEN [dbno |-> old, ttl |-> Zero64, vt |-> Set, key |-> <<>>,
          value |-> <<0>>, err |-> "nil", sdb |-> old, c |-> p.c, kv |-> Nil,
          tag |-> Set]
    ELSE IF p.b = opSelectDB THEN rdSelectThen(setDBNo(p.c, old))
    ELSE rdPairThen(old, p.c, readKeyValuePair(p.c))

rdPeekThen(old, p) ==
    IF p.err # "nil" THEN ReadFail(p.err, old, p.c, Nil, -1)
    ELSE IF p.b = opSelectDB THEN rdSelectThen(setDBNo(p.c, old))
    ELSE rdPairThen(old, p.c, readKeyValuePair(p.c))

ReaderRead(c, old) == rdPeekThen(old, Peek1(c))

(***************************************************************************)
(* readMetadata: [md, err, c]; md is a set of <<key, value>> pairs with    *)
(* one pair per key, Nil for the nil map.                                  *)
(***************************************************************************)
MdFail(e, c) == [md |-> Nil, err |-> e, c |-> c]

\* a map that keeps what a key was mapped to before
MapPutKeepsOld(m, k, v) == m \cup {<<k, v>>}

\* metadata[string(key)] = val
MapPut(m, k, v) == {p \in m : p[1] # k} \cup {<<k, v>>}

RECURSIVE readMetadataLoop(_, _)
mdValThen(metadata, key, val) ==
    IF val.err # "nil" THEN MdFail(val.err, val.c)
    ELSE readMetadataLoop(val.c, MapPut(metadata, key, val.key))

mdKeyThen(metadata, key) ==
    IF key.err # "nil" THEN MdFail(key.err, key.c)
    ELSE mdValThen(metadata, key.key, readStringEncodedValue(key.c))

mdFirstThen(metadata, r) ==
    IF r.err # "nil" THEN MdFail(r.err, r.c)
    ELSE IF r.bs[1] = opSelectDB \/ r.bs[1] = opEOF
    THEN [md |-> metadata, err |-> "nil", c |-> UnreadByte(r.c)]
    ELSE IF r.bs[1] # opAux THEN MdFail("ErrBadOpCode", UnreadByte(r.c))
    ELSE mdKeyThen(metadata, readStringEncodedValue(r.c))

readMetadataLoop(c, metadata) == mdFirstThen(metadata, Read(c, 1))

readMetadata(c) == readMetadataLoop(c, {})

(***************************************************************************)
(* NewReader: [ok, err, Version, Metadata, c].                             *)
(***************************************************************************)
Magic == <<82, 69, 68, 73, 83>>   \* "REDIS"

\* a buffer of n zero bytes after Read has copied bs into its start
Filled(bs, n) == [i \in 1..n |-> IF i <= Len(bs) THEN bs[i] ELSE 0]

\* strconv.Atoi of a short string: an optional sign, then decimal digits only;
\* [ok, v]
IsDigit(ch) == ch >= 48 /\ ch <= 57
RECURSIVE Digits(_, _)
Digits(s, n) ==
    IF s = <<>> THEN n ELSE Digits(Tail(s), n * 10 + (Head(s) - 48))
atoiDigits(neg, ds) ==
    IF ds = <<>> \/ \E i \in 1..Len(ds) : ~IsDigit(ds[i])
    THEN [ok |-> FALSE, v |-> 0]
    ELSE [ok |-> TRUE, v |-> IF neg THEN 0 - Digits(ds, 0) ELSE Digits(ds, 0)]
Atoi(s) ==
    IF s # <<>> /\ (s[1] = 45 \/ s[1] = 43)
    THEN atoiDigits(s[1] = 45, Tail(s))
    ELSE atoiDigits(FALSE, s)

NewFail(e, c) ==
    [ok |-> FALSE, err |-> e, Version |-> 0, Metadata |-> Nil, c |-> c]
NewOk(v, md, c) ==
    [ok |-> TRUE, err |-> "nil", Version |-> v, Metadata |-> md, c |-> c]

nrMetadataThen(v, md) ==
    IF md.err # "nil" THEN NewFail(md.err, md.c) ELSE NewOk(v, md.md, md.c)

\* after buffer.Peek(1): the optional auxiliary fields
nrPeekThen(v, p) ==
    IF p.err # "nil" THEN NewFail(p.err, p.c)
    ELSE IF p.b = opAux THEN nrMetadataThen(v, readMetadata(p.c))
    ELSE NewOk(v, {}, p.c)

\* the version gate with the upper end left out
nrAtoiThenUpperOut(v, c) ==
    IF ~v.ok THEN NewFail("ErrFormat", c)
    ELSE IF minVersion > v.v \/ v.v >= maxVersion THEN NewFail("ErrVersion", c)
    ELSE nrPeekThen(v.v, Peek1(c))

\* the version gate
nrAtoiThen(v, c) ==
    IF ~v.ok THEN NewFail("ErrFormat", c)
    ELSE IF minVersion > v.v \/ v.v > maxVersion THEN NewFail("ErrVersion", c)
    ELSE nrPeekThen(v.v, Peek1(c))

\* buffer.Read(buf) of the 4 version bytes, its results not looked at
nrVersionThen(r2) == nrAtoiThen(Atoi(Filled(r2.bs, 4)), r2.c)

\* the magic compared without a look at what the Read returned
nrMagicThenNoErrCheck(r1) ==
    IF Filled(r1.bs, 5) # Magic THEN NewFail("ErrFormat", r1.c)
    ELSE nrVersionThen(Read(r1.c, 4))

nrMagicThen(r1) ==
    IF r1.err # "nil" THEN NewFail(r1.err, r1.c)
    ELSE IF Filled(r1.bs, 5) # Magic THEN NewFail("ErrFormat", r1.c)
    ELSE nrVersionThen(Read(r1.c, 4))

NewReader(c) == nrMagicThen(Read(c, 5))

(***************************************************************************)
(* What a call returned.                                                   *)
(***************************************************************************)
\* no call logged: hist.cur is the log of the session at work, hist.first the
\* log of the session before it once the source is opened again (twice)
NoHist == [twice |-> FALSE, first |-> <<>>, cur |-> <<>>]

NoOut ==
    [op |-> "none", err |-> "nil", val |-> Zero64, raw |-> Nil, list |-> Nil,
     key |-> Nil, ttl |-> Zero64, vt |-> 0, db |-> Zero64, from |-> NewBufio,
     kv |-> Nil, tag |-> -1]

(***************************************************************************)
(* The length and string codecs on their own: one call of either on a      *)
(* reader that holds the first w bytes of what is left of its source (src  *)
(* is the source from the reader's position on).                           *)
(***************************************************************************)
\* following bytes: the start of one of two fixed byte patterns
Pattern(k, i) == IF k = 1 THEN (17 * i - 16) % 256 ELSE (255 - 3 * (i - 1)) % 256
Payload(k, n) == [i \in 1..n |-> Pattern(k, i)]
LenInputs == {<<b>> \o Payload(k, n) : b \in Byte, k \in 1..2, n \in 0..MaxTail}

\* the readers a call can find: some of the source already in the buffer
Readers ==
    {[pos |-> 0, w |-> w0, last |-> "none"] : w0 \in 0..Min(BufSize, Len(src))}

InitLen ==
    /\ src \in LenInputs
    /\ rd \in Readers
    /\ sess = "none"
    /\ Version = 0
    /\ Metadata = {}
    /\ dbno = Zero64
    /\ out = NoOut
    /\ hist = NoHist

lenReturned(r) ==
    /\ out' = [NoOut EXCEPT !.op = "readLenght", !.err = r.err, !.val = r.val,
                            !.raw = r.raw, !.from = rd]
    /\ rd' = r.c

CallReadLenght ==
    /\ out.op = "none"
    /\ lenReturned(readLenghtEncodedValue(rd))
    /\ UNCHANGED <<src, sess, Version, Metadata, dbno, hist>>

strReturned(r) ==
    /\ out' = [NoOut EXCEPT !.op = "readString", !.err = r.err, !.key = r.key,
                            !.raw = r.raw, !.from = rd]
    /\ rd' = r.c

CallReadString ==
    /\ out.op = "none"
    /\ strReturned(readStringEncodedValue(rd))
    /\ UNCHANGED <<src, sess, Version, Metadata, dbno, hist>>

NextLen == CallReadLenght \/ CallReadString

SpecLen == InitLen /\ [][NextLen]_vars

(***************************************************************************)
(* What the format says, read off the source bytes alone (no reader): the  *)
(* yardstick the decoders are held against.                                *)
(***************************************************************************)
\* bytes a length prefix starting with b takes after its first byte
FollowOf(b) ==
    CASE b \div 64 = 1 -> 1
      [] b = 128 -> 4
      [] b = 129 -> 8
      [] OTHER -> 0

\* b starts a plain integer
IsPlain(b) == b \div 64 = 0 \/ b \div 64 = 1 \/ b = 128 \/ b = 129
\* b is a special marker: 1, 2 or 4 bytes of string content follow
IsSpecial(b) == b = 192 \/ b = 193 \/ b = 194
SpecialLen(b) == CASE b = 192 -> 1 [] b = 193 -> 2 [] OTHER -> 4

\* the big-endian value of the bytes at offsets p..(p + n - 1), n <= 8, as limbs
ByteAt(p) == src[p + 1]
BeLimb(p, n, k) ==
    \* limb k (1..4) covers the value's bytes 2k-1 and 2k of 8, the last n of
    \* which are the source's
    LET hi == 2 * k - 1 - (8 - n)
        lo == 2 * k - (8 - n)
    IN  (IF hi >= 1 THEN ByteAt(p + hi - 1) * 256 ELSE 0)
        + (IF lo >= 1 THEN ByteAt(p + lo - 1) ELSE 0)
BeValue(p, n) == [k \in 1..4 |-> BeLimb(p, n, k)]

\* the integer a plain prefix at offset p stands for
PlainValue(p) ==
    CASE ByteAt(p) \div 64 = 0 -> U64(ByteAt(p) % 64)
      [] ByteAt(p) \div 64 = 1 -> U64((ByteAt(p) % 64) * 256 + ByteAt(p + 1))
      [] OTHER -> BeValue(p + 1, FollowOf(ByteAt(p)))

\* the integer any valid prefix at offset p stands for, and where it ends
IntValue(p) == IF IsSpecial(ByteAt(p)) THEN U64(SpecialLen(ByteAt(p))) ELSE PlainValue(p)
IntEnd(p) == p + 1 + FollowOf(ByteAt(p))

\* the string at offset p: its content and where it ends
StrEnd(p) == IntEnd(p) + Num(IntValue(p))
StrContent(p) == Span(IntEnd(p), StrEnd(p))

\* where the i-th of the strings that follow one another from offset p starts
RECURSIVE ElemPos(_, _)
ElemPos(p, i) == IF i = 1 THEN p ELSE ElemPos(StrEnd(p), i - 1)

\* v * k written out in full: five limbs, nothing dropped
MulWide(v, k) ==
    LET x4 == v[4] * k
        x3 == v[3] * k + (x4 \div Limb)
        x2 == v[2] * k + (x3 \div Limb)
        x1 == v[1] * k + (x2 \div Limb)
    IN  <<x1 \div Limb, x1 % Limb, x2 % Limb, x3 % Limb, x4 % Limb>>

(***************************************************************************)
(* The list decoder and the record decoder on their own: one call of       *)
(* either on a reader that holds the first w bytes of its source.          *)
(***************************************************************************)
\* element counts in every form: 6-bit, 14-bit, 32-bit, 64-bit, special
CountLib ==
    { <<0>>, <<1>>, <<2>>, <<3>>, <<64, 2>>, <<128, 0, 0, 0, 2>>,
      <<129, 0, 0, 0, 0, 0, 0, 0, 1>>, <<192>> }
\* strings in every form
ElemLib ==
    { <<0>>, <<1, 97>>, <<2, 98, 99>>, <<192, 64>>, <<194, 1, 2, 3, 4>>,
      <<64, 1, 100>>, <<128, 0, 0, 0, 1, 101>>,
      <<129, 0, 0, 0, 0, 0, 0, 0, 1, 102>> }
\* what comes before the value in a record: expiry, value type, key
PreLib == { <<>>, <<1, 0>>, <<252, 7, 2, 1, 107>> }

RECURSIVE Flatten(_)
Flatten(chs) == IF chs = <<>> THEN <<>> ELSE Head(chs) \o Flatten(Tail(chs))

ListInputs ==
    {pre \o cnt \o Flatten(es) :
        pre \in PreLib, cnt \in CountLib,
        es \in UNION {[1..k -> ElemLib] : k \in 0..MaxStrings}}

InitList ==
    /\ src \in ListInputs
    /\ rd \in Readers
    /\ sess = "none"
    /\ Version = 0
    /\ Metadata = {}
    /\ dbno = Zero64
    /\ out = NoOut
    /\ hist = NoHist

listReturned(r) ==
    /\ out' = [NoOut EXCEPT !.op = "readList", !.err = r.err, !.list = r.list,
                            !.raw = r.raw, !.from = rd]
    /\ rd' = r.c

CallReadList ==
    /\ out.op = "none"
    /\ listReturned(readListEncodedValue(rd))
    /\ UNCHANGED <<src, sess, Version, Metadata, dbno, hist>>

pairReturned(r) ==
    /\ out' = [NoOut EXCEPT !.op = "readKeyValuePair", !.err = r.err,
                            !.ttl = r.ttl, !.vt = r.vt, !.key = r.key,
                            !.raw = r.value, !.from = rd, !.kv = rd,
                            !.tag = r.tag]
    /\ rd' = r.c

CallReadKeyValuePair ==
    /\ out.op = "none"
    /\ pairReturned(readKeyValuePair(rd))
    /\ UNCHANGED <<src, sess, Version, Metadata, dbno, hist>>

NextList == CallReadList \/ CallReadKeyValuePair

SpecList == InitList /\ [][NextList]_vars

(***************************************************************************)
(* The session: a source is opened with NewReader and read with Read until *)
(* the caller stops.                                                       *)
(***************************************************************************)
Header == Magic \o <<48, 48, 48, 56>>   \* "REDIS0008"

\* the pieces a source is made of after its header
Chunks ==
    { <<250, 1, 97, 1, 98>>,                        \* aux field "a" -> "b"
      <<254, 1>>,                                   \* select database 1
      <<254, 2, 251, 2, 3>>,                        \* select database 2, resize hint
      <<252, 5>>,                                   \* expire in 5 ms
      <<253, 5>>,                                   \* expire in 5 s
      <<253, 129, 1, 18, 35, 52, 69, 86, 103, 120>>,\* expire in s, 64-bit form
      <<1, 2, 107, 101, 2, 1, 97, 192, 64>>,        \* list "ke": "a", special
      <<2, 0, 0>>,                                  \* set "": no elements
      <<2, 1, 107, 2, 1, 97, 1, 97>>,               \* set "k": "a", "a"
      <<0, 1, 107>>,                                \* string "k" ...
      <<4, 1, 107>>,                                \* hash "k" ...
      <<255>>,                                      \* end of stream
      <<1>>,
      <<130>>,                                      \* reserved width selector
      <<195>> }                                     \* compressed string

Bodies == {Flatten(chs) : chs \in UNION {[1..k -> Chunks] : k \in 0..MaxChunks}}

Init ==
    /\ src \in {Header \o b : b \in Bodies}
    /\ rd = NewBufio
    /\ sess = "none"
    /\ Version = 0
    /\ Metadata = {}
    /\ dbno = Zero64
    /\ out = NoOut
    /\ hist = NoHist

\* the dbno of the Reader that NewReader has made from the database number
\* of the Reader made before it
readerDbnoKept(r) == dbno

\* &Reader{Version, buffer, Metadata}: dbno is the zero value
readerDbno(r) == Zero64

newReaderReturned(r) ==
    /\ sess' = IF r.ok THEN "open" ELSE "failed"
    /\ dbno' = readerDbno(r)
    /\ Version' = r.Version
    /\ Metadata' = IF r.ok THEN r.Metadata ELSE {}
    /\ rd' = r.c
    /\ out' = [NoOut EXCEPT !.op = "NewReader", !.err = r.err, !.from = rd]

CallNewReader ==
    /\ sess = "none"
    /\ newReaderReturned(NewReader(rd))
    /\ UNCHANGED <<src, hist>>

\* the exported fields with the metadata dropped by a Read that met the
\* auxiliary opcode where the value type is
readerFieldsAuxTaken(r) ==
    [Version |-> Version, Metadata |-> IF r.tag = opAux THEN {} ELSE Metadata]

\* the Reader's exported fields after Read: Read, setDBNo and
\* readKeyValuePair assign r.dbno and nothing else of the Reader
readerFields(r) == [Version |-> Version, Metadata |-> Metadata]

readReturned(r) ==
    /\ dbno' = r.sdb
    /\ Version' = readerFields(r).Version
    /\ Metadata' = readerFields(r).Metadata
    /\ rd' = r.c
    /\ out' = [NoOut EXCEPT !.op = "Read", !.err = r.err, !.db = r.dbno,
                            !.ttl = r.ttl, !.vt = r.vt, !.key = r.key,
                            !.raw = r.value, !.from = rd, !.kv = r.kv,
                            !.tag = r.tag]

CallRead ==
    /\ sess = "open"
    /\ readReturned(ReaderRead(rd, dbno))
    /\ UNCHANGED <<src, sess, hist>>

Next == CallNewReader \/ CallRead

Spec == Init /\ [][Next]_vars

(***************************************************************************)
(* Where a record's fields lie, by the format: the record starts at offset *)
(* p with an optional expiry (opcode and integer), then the value type,    *)
(* the key and the value.                                                  *)
(***************************************************************************)
HasExpiry(p) == ByteAt(p) = opExpiretimeMs \/ ByteAt(p) = opExpiretime
TagPos(p) == IF HasExpiry(p) THEN IntEnd(p + 1) ELSE p
KeyPos(p) == TagPos(p) + 1
ValuePos(p) == StrEnd(KeyPos(p))

(***************************************************************************)
(* C1. Calling Reader.Read when the next byte is the end-of-file marker    *)
(* 0xFF terminates the stream without any of the failure error kinds       *)
(* (ErrFormat, ErrNotSupported, ErrBadOpCode), without returning a record, *)
(* and the bytes after the marker are never interpreted as a value-type    *)
(* tag or key.                                                             *)
(***************************************************************************)
C1_EndMarkerTerminates ==
    (/\ out.op = "Read"
     /\ out.from.pos < Len(src)
     /\ ByteAt(out.from.pos) = opEOF)
    => /\ out.err \notin {"ErrFormat", "ErrNotSupported", "ErrBadOpCode"}
       /\ out.key = Nil
       /\ out.raw = Nil
       /\ rd.pos <= out.from.pos + 1

\* Read at the marker took it for a value type and the bytes after it for a key
C1_Witness ==
    /\ out.op = "Read"
    /\ ByteAt(out.from.pos) = opEOF
    /\ out.tag = opEOF
    /\ out.err = "ErrNotSupported"
    /\ rd.pos > out.from.pos + 1

(***************************************************************************)
(* C2. For a well-formed list or set record, Reader.Read returns ttl equal *)
(* to the decoded integer after a leading 0xFC, to the decoded integer     *)
(* times 1000 after a leading 0xFD, and 0 with no expiry opcode; the value *)
(* type is the tag byte that follows the expiry and the key is the content *)
(* of the string that follows the tag.                                     *)
(***************************************************************************)
C2_TtlTagKey ==
    (out.op = "Read" /\ out.err = "nil")
    => /\ out.vt = ByteAt(TagPos(out.kv.pos))
       /\ out.key = StrContent(KeyPos(out.kv.pos))
       /\ CASE ByteAt(out.kv.pos) = opExpiretimeMs ->
                 out.ttl = IntValue(out.kv.pos + 1)
            [] ByteAt(out.kv.pos) = opExpiretime ->
                 <<0>> \o out.ttl = MulWide(IntValue(out.kv.pos + 1), 1000)
            [] OTHER -> out.ttl = Zero64

\* a record read with an expiry in seconds whose product with 1000 has a
\* 65th bit
C2_Witness ==
    /\ out.op = "Read"
    /\ out.err = "nil"
    /\ ByteAt(out.kv.pos) = opExpiretime
    /\ MulWide(IntValue(out.kv.pos + 1), 1000)[1] # 0
    /\ out.ttl = Mul64(IntValue(out.kv.pos + 1), 1000)

C4_ListElements ==
    (out.op = "readList" /\ out.err = "nil")
    => /\ Len(out.list) = Num(IntValue(out.from.pos))
       /\ \A i \in 1..Len(out.list) :
             out.list[i] = StrContent(ElemPos(IntEnd(out.from.pos), i))
       /\ rd.pos = ElemPos(IntEnd(out.from.pos), Len(out.list) + 1)

C4_Witness ==
    /\ out.op = "readList"
    /\ out.err = "nil"
    /\ Len(out.list) = 2
    /\ out.list[1] # out.list[2]
    /\ out.list[2] # <<>>
    /\ out.from.w < rd.pos

(***************************************************************************)
(* C5. The raw bytes readListEncodedValue returns on success (and          *)
(* readKeyValuePair hands on as the record's value) are exactly the input  *)
(* bytes consumed for the value: the count's bytes followed by each        *)
(* element's bytes in order, in every length form and for special          *)
(* elements.                                                               *)
(***************************************************************************)
C5_RawIsConsumed ==
    /\ (out.op = "readList" /\ out.err = "nil")
       => /\ out.raw = Span(out.from.pos, rd.pos)
          /\ rd.pos = ElemPos(IntEnd(out.from.pos),
                              Num(IntValue(out.from.pos)) + 1)
    /\ (out.op = "readKeyValuePair" /\ out.err = "nil")
       => /\ out.raw = Span(ValuePos(out.from.pos), rd.pos)
          /\ rd.pos = ElemPos(IntEnd(ValuePos(out.from.pos)),
                              Num(IntValue(ValuePos(out.from.pos))) + 1)

C5_Witness ==
    /\ out.op = "readKeyValuePair"
    /\ out.err = "nil"
    /\ out.key # <<>>
    /\ Len(out.raw) > 9
    /\ Len(src) > rd.pos

(***************************************************************************)
(* C6. The database number a successful Reader.Read returns is the number  *)
(* decoded by the most recent successful select (0 before any): a Read     *)
(* that begins with the select opcode and succeeds sets the session's      *)
(* number to the one it decoded, a Read that does not begin with it leaves *)
(* the session's number unchanged.                                         *)
(***************************************************************************)
C6_DatabaseNumber ==
    [][ /\ sess = "none" => dbno = Zero64
        /\ (sess = "open" /\ out'.op = "Read")
           => /\ out'.err = "nil" => out'.db = dbno'
              /\ IF rd.pos < Len(src) /\ ByteAt(rd.pos) = opSelectDB
                 THEN out'.err = "nil" => dbno' = IntValue(rd.pos + 1)
                 ELSE dbno' = dbno ]_vars

C6_Witness ==
    /\ out.op = "Read"
    /\ out.err = "nil"
    /\ out.db = U64(2)
    /\ ByteAt(out.from.pos) # opSelectDB

(***************************************************************************)
(* C7. For every input whose first byte selects a plain-integer mode and   *)
(* whose following bytes are all present, readLenghtEncodedValue returns   *)
(* the big-endian value and the exact bytes consumed: 6 bits in 1 byte,    *)
(* 14 bits in 2, 32 bits in 5, 64 bits in 9; the raw bytes are the bytes   *)
(* consumed and the cursor advances by that count.                         *)
(***************************************************************************)
C7_PlainIntegerDecoded ==
    (/\ out.op = "readLenght"
     /\ IsPlain(src[1])
     /\ Len(src) >= 1 + FollowOf(src[1]))
    => /\ out.err = "nil"
       /\ out.val = PlainValue(0)
       /\ out.raw = SubSeq(src, 1, 1 + FollowOf(src[1]))
       /\ rd.pos = 1 + FollowOf(src[1])

\* the same, for the calls that find every byte of the integer in the
\* reader's buffer (or the buffer empty)
C7_PlainIntegerDecodedBuffered ==
    (/\ out.op = "readLenght"
     /\ IsPlain(src[1])
     /\ Len(src) >= 1 + FollowOf(src[1])
     /\ (out.from.w >= 1 + FollowOf(src[1]) \/ out.from.w <= 1))
    => /\ out.err = "nil"
       /\ out.val = PlainValue(0)
       /\ out.raw = SubSeq(src, 1, 1 + FollowOf(src[1]))
       /\ rd.pos = 1 + FollowOf(src[1])

\* a 32-bit integer all there in the source, part of it in the buffer
C7_Witness ==
    /\ out.op = "readLenght"
    /\ src[1] = 128
    /\ Len(src) >= 5
    /\ out.from.w \in 2..4
    /\ out.err = "ErrFormat"

(***************************************************************************)
(* C8. For a first byte 0xC0, 0xC1 or 0xC2 readLenghtEncodedValue returns  *)
(* the special payload's byte count 1, 2 or 4, consumes exactly the prefix *)
(* byte (the raw output is that byte) and leaves the payload unconsumed.   *)
(***************************************************************************)
C8_SpecialMarker ==
    (out.op = "readLenght" /\ IsSpecial(src[1]))
    => /\ out.err = "nil"
       /\ out.val = U64(SpecialLen(src[1]))
       /\ out.raw = <<src[1]>>
       /\ rd.pos = 1

C8_Witness ==
    /\ out.op = "readLenght"
    /\ src[1] = 194
    /\ Len(src) >= 5
    /\ out.val = U64(4)
    /\ rd.pos = 1

(***************************************************************************)
(* C9. readLenghtEncodedValue rejects every reserved bit pattern: mode 10  *)
(* with a width selector other than 0 or 1 with ErrFormat, mode 11         *)
(* sub-type 3 with ErrNotSupported, mode 11 with a sub-type above 3 with   *)
(* ErrFormat; the integer returned is 0 and the raw bytes are nil, and     *)
(* readStringEncodedValue returns the same error, with nil content.        *)
(***************************************************************************)
ReservedError(b) ==
    CASE b \div 64 = 2 /\ b % 64 > 1 -> "ErrFormat"
      [] b \div 64 = 3 /\ b % 64 = 3 -> "ErrNotSupported"
      [] b \div 64 = 3 /\ b % 64 > 3 -> "ErrFormat"
      [] OTHER -> "nil"

C9_ReservedRejected ==
    (out.op \in {"readLenght", "readString"} /\ ReservedError(src[1]) # "nil")
    => /\ out.err = ReservedError(src[1])
       /\ out.val = Zero64
       /\ out.raw = Nil
       /\ out.key = Nil

C9_Witness ==
    /\ out.op = "readString"
    /\ src[1] = 195
    /\ Len(src) >= 5
    /\ out.err = "ErrNotSupported"

(***************************************************************************)
(* C10. Whenever the input ends before all bytes required by a valid       *)
(* length prefix are available (mode 01 without its second byte, mode 10   *)
(* selector 0 or 1 with none or only some of its 4 or 8 bytes),            *)
(* readLenghtEncodedValue fails with io.EOF and never with ErrFormat.      *)
(***************************************************************************)
TruncatedPrefix ==
    /\ out.op = "readLenght"
    /\ IsPlain(src[1])
    /\ Len(src) < 1 + FollowOf(src[1])

C10_TruncatedIsEOF == TruncatedPrefix => out.err = "EOF"

\* as amended: io.EOF when none of the following bytes is there, ErrFormat
\* when some but not all of them are
C10_TruncatedEOFOrFormat ==
    TruncatedPrefix
    => /\ out.val = Zero64
       /\ out.raw = Nil
       /\ out.err = IF Len(src) = 1 THEN "EOF" ELSE "ErrFormat"

C10_Witness ==
    /\ TruncatedPrefix
    /\ src[1] = 129
    /\ Len(src) = 8
    /\ out.err = "ErrFormat"

(***************************************************************************)
(* C11. For a plain length prefix of value L (L = 0 included) followed by  *)
(* at least L bytes, readStringEncodedValue returns as content exactly the *)
(* next L bytes and as raw bytes the prefix followed by the content, and   *)
(* advances the cursor by exactly len(prefix) + L.                         *)
(***************************************************************************)
\* the source starts with a plain prefix and holds every byte it announces
PlainStringThere ==
    /\ IsPlain(src[1])
    /\ Len(src) >= IntEnd(0)
    /\ Fits(IntValue(0))
    /\ Len(src) >= StrEnd(0)

C11_PlainString ==
    (out.op = "readString" /\ PlainStringThere)
    => /\ out.err = "nil"
       /\ out.key = StrContent(0)
       /\ out.raw = Span(0, StrEnd(0))
       /\ rd.pos = StrEnd(0)

\* the same, for the calls that find the whole string in the reader's buffer,
\* or the buffer empty when the content is read
C11_PlainStringBuffered ==
    (/\ out.op = "readString"
     /\ PlainStringThere
     /\ (out.from.w >= StrEnd(0) \/ out.from.w <= 1 \/ out.from.w = IntEnd(0)))
    => /\ out.err = "nil"
       /\ out.key = StrContent(0)
       /\ out.raw = Span(0, StrEnd(0))
       /\ rd.pos = StrEnd(0)

\* a five-byte string all there in the source, part of it in the buffer
C11_Witness ==
    /\ out.op = "readString"
    /\ src[1] = 5
    /\ Len(src) >= 6
    /\ out.from.w \in 2..5
    /\ out.err = "EOF"

(***************************************************************************)
(* C13. For a string whose prefix is a special marker (0xC0, 0xC1, 0xC2),  *)
(* readStringEncodedValue reads exactly the 1, 2 or 4 following bytes and  *)
(* returns them as they are, in stream order, as the content; the raw      *)
(* bytes are the marker followed by those bytes.                           *)
(***************************************************************************)
SpecialStringThere ==
    /\ IsSpecial(src[1])
    /\ Len(src) >= 1 + SpecialLen(src[1])

C13_SpecialString ==
    (out.op = "readString" /\ SpecialStringThere)
    => /\ out.err = "nil"
       /\ out.key = SubSeq(src, 2, 1 + SpecialLen(src[1]))
       /\ out.raw = SubSeq(src, 1, 1 + SpecialLen(src[1]))
       /\ rd.pos = 1 + SpecialLen(src[1])

\* the same, for the calls that find the payload in the reader's buffer, or
\* the buffer empty when the payload is read
C13_SpecialStringBuffered ==
    (/\ out.op = "readString"
     /\ SpecialStringThere
     /\ (out.from.w >= 1 + SpecialLen(src[1]) \/ out.from.w <= 1))
    => /\ out.err = "nil"
       /\ out.key = SubSeq(src, 2, 1 + SpecialLen(src[1]))
       /\ out.raw = SubSeq(src, 1, 1 + SpecialLen(src[1]))
       /\ rd.pos = 1 + SpecialLen(src[1])

\* a four-byte payload all there in the source, part of it in the buffer
C13_Witness ==
    /\ out.op = "readString"
    /\ src[1] = 194
    /\ Len(src) >= 5
    /\ out.from.w \in 2..4
    /\ out.err = "EOF"

(***************************************************************************)
(* The string decoder and the list decoder on the inputs of the length     *)
(* codec: a first byte of every value, then up to MaxTail bytes.           *)
(***************************************************************************)
NextBody == CallReadString \/ CallReadList

SpecBody == InitLen /\ [][NextBody]_vars

\* the byte at offset p starts a length prefix that is not reserved
IsPrefix(p) == IsPlain(ByteAt(p)) \/ IsSpecial(ByteAt(p))

\* the string at offset p has its whole prefix in the source and announces
\* more content than the source holds
StringBodyCut(p) ==
    /\ p < Len(src)
    /\ IsPrefix(p)
    /\ IntEnd(p) <= Len(src)
    /\ (~Fits(IntValue(p)) \/ StrEnd(p) > Len(src))

\* the source ends before the n strings that start at offset p are through
RECURSIVE StringsCutShort(_, _)
StringsCutShort(p, n) ==
    IF n = 0 THEN FALSE
    ELSE IF p >= Len(src) THEN TRUE
    ELSE IF ~IsPrefix(p) THEN FALSE
    ELSE IF IntEnd(p) > Len(src) \/ StringBodyCut(p) THEN TRUE
    ELSE StringsCutShort(StrEnd(p), n - 1)

\* the list at offset p has its whole count in the source and announces more
\* strings than the source holds
ListBodyCut(p) ==
    /\ p < Len(src)
    /\ IsPrefix(p)
    /\ IntEnd(p) <= Len(src)
    /\ StringsCutShort(IntEnd(p), Clamp(IntValue(p)))

(***************************************************************************)
(* C12. When a string or list body is cut short (the source ends before    *)
(* the declared string length, or before the declared number of elements   *)
(* has been read), readStringEncodedValue and readListEncodedValue fail    *)
(* with io.EOF, not ErrFormat, and return nil for the value and for the    *)
(* raw bytes.                                                              *)
(***************************************************************************)
C12_CutShortIsEOF ==
    /\ (out.op = "readString" /\ StringBodyCut(0))
       => (out.err = "EOF" /\ out.key = Nil /\ out.raw = Nil)
    /\ (out.op = "readList" /\ ListBodyCut(0))
       => (out.err = "EOF" /\ out.list = Nil /\ out.raw = Nil)

\* the same without the lengths the run time refuses to allocate, without
\* 32- and 64-bit prefixes among the elements, for a reader with an empty
\* buffer
C12_CutShortIsEOFSmall ==
    (/\ out.from.w = 0
     /\ src[1] # 128
     /\ src[1] # 129
     /\ \A i \in 2..Len(src) : src[i] # 128 /\ src[i] # 129)
    => C12_CutShortIsEOF

\* a string that announces more bytes than can be allocated
C12_Witness ==
    /\ out.op = "readString"
    /\ src[1] = 129
    /\ Len(src) >= 9
    /\ out.err = "panic"

(***************************************************************************)
(* The header stage: NewReader, then Read, over sources with every kind of *)
(* magic, version and auxiliary run.                                       *)
(***************************************************************************)
\* what can stand where the version stands, and what strconv.Atoi makes of
\* it (the bytes are those of the source: fewer than 4 when it ends there)
VersionTable ==
    { [bytes |-> <<48, 48, 48, 56>>, ok |-> TRUE,  v |-> 8],     \* "0008"
      [bytes |-> <<48, 48, 48, 55>>, ok |-> TRUE,  v |-> 7],     \* "0007"
      [bytes |-> <<48, 48, 48, 54>>, ok |-> TRUE,  v |-> 6],     \* "0006"
      [bytes |-> <<48, 48, 48, 51>>, ok |-> TRUE,  v |-> 3],     \* "0003"
      [bytes |-> <<48, 48, 48, 50>>, ok |-> TRUE,  v |-> 2],     \* "0002"
      [bytes |-> <<48, 48, 48, 57>>, ok |-> TRUE,  v |-> 9],     \* "0009"
      [bytes |-> <<48, 48, 51, 50>>, ok |-> TRUE,  v |-> 32],    \* "0032"
      [bytes |-> <<43, 48, 48, 56>>, ok |-> TRUE,  v |-> 8],     \* "+008"
      [bytes |-> <<45, 48, 48, 55>>, ok |-> TRUE,  v |-> -7],    \* "-007"
      [bytes |-> <<48, 48, 0, 50>>,  ok |-> FALSE, v |-> 0],     \* "00\x002"
      [bytes |-> <<32, 48, 48, 56>>, ok |-> FALSE, v |-> 0],     \* " 008"
      [bytes |-> <<48, 48, 48>>,     ok |-> FALSE, v |-> 0],     \* cut short
      [bytes |-> <<56>>,             ok |-> FALSE, v |-> 0],
      [bytes |-> <<>>,               ok |-> FALSE, v |-> 0] }

\* the pieces of an auxiliary run, whole and broken
AuxLib ==
    { <<250, 1, 97, 1, 98>>,                  \* "a" -> "b"
      <<250, 1, 97, 1, 99>>,                  \* "a" -> "c"
      <<250, 192, 64, 0>>,                    \* special key, empty value
      <<250, 2, 107, 101, 194, 1, 2, 3, 4>>,  \* "ke" -> special, 4 bytes
      <<254, 1>>,                             \* select database 1
      <<255>>,                                \* end of stream
      <<1>>,                                  \* no opcode of this stage
      <<250>>,                                \* cut after the opcode
      <<250, 1>>,                             \* cut in the key
      <<250, 1, 97>>,                         \* cut before the value
      <<250, 129, 255, 255, 255, 255, 255, 255, 255, 255>>, \* key of 2^64-1 bytes
      <<250, 128, 0, 0>>,                     \* cut in a 32-bit length
      <<250, 195>> }                          \* compressed key

AuxRuns == {Flatten(ps) : ps \in UNION {[1..k -> AuxLib] : k \in 0..MaxAux}}

OpenInputs ==
    \* sources that end in or before the magic
    {SubSeq(Magic, 1, n) : n \in 0..4}
    \* another magic
    \cup {<<82, 69, 68, 73, 84>> \o t : t \in {<<>>, <<48, 48, 48, 56, 255>>}}
    \cup {<<114, 101, 100, 105, 115, 48, 48, 48, 56, 255>>}
    \* sources that end in the version
    \cup {Magic \o t.bytes : t \in {t \in VersionTable : Len(t.bytes) < 4}}
    \* every version, before the end of the stream and before one pair
    \cup {Magic \o t.bytes \o r :
            t \in {t \in VersionTable : Len(t.bytes) = 4},
            r \in {<<255>>, <<250, 1, 97, 1, 98, 255>>}}
    \* a supported version, before every run
    \cup {Header \o r : r \in AuxRuns}

InitOpen ==
    /\ src \in OpenInputs
    /\ rd = NewBufio
    /\ sess = "none"
    /\ Version = 0
    /\ Metadata = {}
    /\ dbno = Zero64
    /\ out = NoOut
    /\ hist = NoHist

SpecOpen == InitOpen /\ [][Next]_vars

\* the source starts with the magic
MagicThere == Len(src) >= 5 /\ SubSeq(src, 1, 5) = Magic
\* what stands where the version stands, by the table
VersionThere == CHOOSE t \in VersionTable : t.bytes = SubSeq(src, 6, Min(9, Len(src)))
\* the header is one NewReader lets through
HeaderThere == MagicThere /\ VersionThere.ok /\ VersionThere.v \in 7..8

\* the n strings that start at offset p are all in the source
RECURSIVE StringsThere(_, _)
StringsThere(p, n) ==
    IF n = 0 THEN TRUE
    ELSE IF p >= Len(src) \/ ~IsPrefix(p) THEN FALSE
    ELSE IF IntEnd(p) > Len(src) \/ StringBodyCut(p) THEN FALSE
    ELSE StringsThere(StrEnd(p), n - 1)

\* an auxiliary pair at offset p: opcode, key, value
AuxKey(p) == StrContent(p + 1)
AuxVal(p) == StrContent(StrEnd(p + 1))
AuxNext(p) == StrEnd(StrEnd(p + 1))
PairThere(p) == p < Len(src) /\ ByteAt(p) = opAux /\ StringsThere(p + 1, 2)

(***************************************************************************)
(* C14. NewReader fails with ErrFormat and returns no session whenever the *)
(* first 5 bytes of the source are not the magic "REDIS", every source     *)
(* that ends before 5 bytes are available (0 to 4 bytes long) included.    *)
(***************************************************************************)
C14_NoMagicIsFormat ==
    (out.op = "NewReader" /\ ~MagicThere)
    => (out.err = "ErrFormat" /\ sess = "failed" /\ Version = 0)

\* as amended: io.EOF for the empty source
C14_NoMagicIsFormatOrEOF ==
    (out.op = "NewReader" /\ ~MagicThere)
    => /\ out.err = IF Len(src) = 0 THEN "EOF" ELSE "ErrFormat"
       /\ sess = "failed"
       /\ Version = 0
       /\ Metadata = {}

C14_Witness ==
    /\ out.op = "NewReader"
    /\ Len(src) = 3
    /\ out.err = "ErrFormat"
    /\ sess = "failed"

(***************************************************************************)
(* C15. After a valid magic, NewReader fails with ErrFormat when the 4     *)
(* version bytes are not parseable as a decimal integer and with           *)
(* ErrVersion exactly when the parsed version lies outside the inclusive   *)
(* range 3 to 8; every version from 3 through 8 passes the gate. On either *)
(* failure no session is returned; on success Reader.Version is the parsed *)
(* integer.                                                                *)
(***************************************************************************)
C15_VersionGate3To8 ==
    (out.op = "NewReader" /\ MagicThere)
    => /\ ~VersionThere.ok => (out.err = "ErrFormat" /\ sess = "failed")
       /\ VersionThere.ok
          => (out.err = "ErrVersion" <=> VersionThere.v \notin 3..8)
       /\ out.err = "ErrVersion" => sess = "failed"
       /\ sess = "open" => Version = VersionThere.v

\* as amended: the range is 7 to 8
C15_VersionGate7To8 ==
    (out.op = "NewReader" /\ MagicThere)
    => /\ ~VersionThere.ok => (out.err = "ErrFormat" /\ sess = "failed")
       /\ VersionThere.ok
          => (out.err = "ErrVersion" <=> VersionThere.v \notin 7..8)
       /\ out.err = "ErrVersion" => sess = "failed"
       /\ sess = "failed" => (Version = 0 /\ Metadata = {})
       /\ sess = "open" => Version = VersionThere.v

C15_Witness ==
    /\ out.op = "NewReader"
    /\ MagicThere
    /\ VersionThere.ok
    /\ VersionThere.v = 6
    /\ out.err = "ErrVersion"

(***************************************************************************)
(* C16. When the byte after the version is the auxiliary opcode, a         *)
(* successful NewReader leaves in Reader.Metadata exactly the key/value    *)
(* pairs of the auxiliary run (a repeated key mapped to its last value)    *)
(* and nothing else, and the select-database or end-of-stream byte that    *)
(* ends the run is not consumed: it is the next byte the first Read sees.  *)
(***************************************************************************)
\* the offsets of the pairs of the run that starts at offset p
RECURSIVE AuxStarts(_)
AuxStarts(p) ==
    IF ByteAt(p) = opAux THEN <<p>> \o AuxStarts(AuxNext(p)) ELSE <<>>
\* where the run ends
AuxEnd(p) ==
    IF AuxStarts(p) = <<>> THEN p ELSE AuxNext(AuxStarts(p)[Len(AuxStarts(p))])
\* the pairs of the run, the last of those with the same key
AuxPairs(ps) ==
    { <<AuxKey(ps[i]), AuxVal(ps[i])>> :
        i \in {i \in 1..Len(ps) :
                 \A j \in (i + 1)..Len(ps) : AuxKey(ps[j]) # AuxKey(ps[i])} }

C16_MetadataIsTheRun ==
    (out.op = "NewReader" /\ sess = "open" /\ ByteAt(9) = opAux)
    => /\ Metadata = AuxPairs(AuxStarts(9))
       /\ rd.pos = AuxEnd(9)
       /\ ByteAt(rd.pos) \in {opSelectDB, opEOF}

C16_Witness ==
    /\ out.op = "NewReader"
    /\ sess = "open"
    /\ ByteAt(9) = opAux
    /\ Len(AuxStarts(9)) = 2
    /\ Cardinality(Metadata) = 1
    /\ ByteAt(rd.pos) = opSelectDB

(***************************************************************************)
(* C17. NewReader fails with ErrBadOpCode whenever the byte found at a     *)
(* field boundary of the header stage (the byte right after the version,   *)
(* or the byte after any complete auxiliary pair) is none of the           *)
(* auxiliary, select-database and end-of-stream opcodes.                   *)
(***************************************************************************)
\* the boundary at offset p, or one after the pairs that follow it, holds a
\* byte that is no opcode of the stage
RECURSIVE BadBoundary(_)
BadBoundary(p) ==
    IF p >= Len(src) THEN FALSE
    ELSE IF ByteAt(p) = opAux THEN PairThere(p) /\ BadBoundary(AuxNext(p))
    ELSE ByteAt(p) \notin {opSelectDB, opEOF}

C17_BadBoundaryIsBadOpCode ==
    (out.op = "NewReader" /\ HeaderThere /\ BadBoundary(9))
    => (out.err = "ErrBadOpCode" /\ sess = "failed")

\* the same for the boundaries after a pair, in a source that lies in the
\* reader's buffer whole
C17_BadBoundaryAfterPair ==
    (/\ out.op = "NewReader"
     /\ HeaderThere
     /\ BadBoundary(9)
     /\ ByteAt(9) = opAux
     /\ Len(src) <= BufSize)
    => (out.err = "ErrBadOpCode" /\ sess = "failed")

\* a session opened on a byte that is no opcode of the stage
C17_Witness ==
    /\ out.op = "NewReader"
    /\ HeaderThere
    /\ Len(src) > 9
    /\ ByteAt(9) = 1
    /\ sess = "open"
    /\ rd.pos = 9

(***************************************************************************)
(* C18. If the source is exhausted anywhere after a valid header and       *)
(* before a select-database or end-of-stream byte has been seen (header    *)
(* only; after an auxiliary opcode; inside a key or value; after a         *)
(* complete pair), NewReader fails with io.EOF and returns no session, and *)
(* no partly filled metadata.                                              *)
(***************************************************************************)
\* the source ends at the boundary at offset p, or in or after the pairs
\* that follow it
RECURSIVE RunsOut(_)
RunsOut(p) ==
    IF p >= Len(src) THEN TRUE
    ELSE IF ByteAt(p) # opAux THEN FALSE
    ELSE IF PairThere(p) THEN RunsOut(AuxNext(p))
    ELSE StringsCutShort(p + 1, 2)

C18_ExhaustedIsEOF ==
    (out.op = "NewReader" /\ HeaderThere /\ RunsOut(9))
    => (out.err = "EOF" /\ sess = "failed" /\ Metadata = {})

\* the same for the sources without 32- and 64-bit lengths
C18_ExhaustedIsEOFSmall ==
    (/\ out.op = "NewReader"
     /\ HeaderThere
     /\ RunsOut(9)
     /\ \A i \in 10..Len(src) : src[i] # 128 /\ src[i] # 129)
    => (out.err = "EOF" /\ sess = "failed" /\ Metadata = {})

\* a key that announces more bytes than can be allocated
C18_Witness ==
    /\ out.op = "NewReader"
    /\ HeaderThere
    /\ RunsOut(9)
    /\ out.err = "panic"

(***************************************************************************)
(* setDBNo on its own: one call on a reader that holds the first w bytes   *)
(* of its source, in a session whose database number is 0 or 7.            *)
(***************************************************************************)
\* integers in every form
IntLib ==
    { <<1>>, <<64, 2>>, <<128, 0, 0, 0, 3>>,
      <<129, 0, 0, 0, 0, 0, 0, 0, 4>>, <<192>>, <<130>> }
\* what follows the database number
AfterDbLib ==
    { <<>>, <<255>>, <<1, 0, 0>>, <<254, 1>>, <<251>>, <<251, 2>> }
    \cup {<<251>> \o a \o b \o t :
            a \in {<<2>>, <<64, 2>>}, b \in {<<3>>, <<128, 0, 0, 0, 3>>},
            t \in {<<>>, <<255>>, <<251, 1>>}}
DbInputs ==
    {<<254>> \o n \o t : n \in IntLib, t \in AfterDbLib}
    \cup {<<>>, <<254>>, <<255>>, <<1, 254, 1>>}

InitDb ==
    /\ src \in DbInputs
    /\ rd \in Readers
    /\ sess = "open"
    /\ Version = 8
    /\ Metadata = {}
    /\ dbno \in {Zero64, U64(7)}
    /\ out = NoOut
    /\ hist = NoHist

dbReturned(r) ==
    /\ out' = [NoOut EXCEPT !.op = "setDBNo", !.err = r.err, !.db = dbno,
                            !.from = rd]
    /\ dbno' = r.dbno
    /\ rd' = r.c

CallSetDBNo ==
    /\ out.op = "none"
    /\ dbReturned(setDBNo(rd, dbno))
    /\ UNCHANGED <<src, sess, Version, Metadata, hist>>

NextDb == CallSetDBNo

SpecDb == InitDb /\ [][NextDb]_vars

(***************************************************************************)
(* C19. A successful setDBNo consumes the select-database opcode and one   *)
(* length-encoded database number and then, only if the next byte is the   *)
(* resize-hint opcode 0xFB, that byte and two more length-encoded          *)
(* integers; otherwise the byte that follows is left unconsumed.           *)
(* Afterwards the session's database number is the decoded number and the  *)
(* cursor stands on the first byte after the consumed fields.              *)
(***************************************************************************)
\* where a select transition that starts at offset p ends
SelectEnd(p) ==
    IF ByteAt(IntEnd(p + 1)) = opResizeDB
    THEN IntEnd(IntEnd(IntEnd(p + 1) + 1))
    ELSE IntEnd(p + 1)

C19_SelectConsumes ==
    (out.op = "setDBNo" /\ out.err = "nil")
    => /\ ByteAt(out.from.pos) = opSelectDB
       /\ dbno = IntValue(out.from.pos + 1)
       /\ rd.pos = SelectEnd(out.from.pos)
       /\ ByteAt(IntEnd(out.from.pos + 1)) # opResizeDB
          => rd.pos = IntEnd(out.from.pos + 1)

\* a select with resize hints before the end-of-stream byte, in a session
\* that was in another database
C19_Witness ==
    /\ out.op = "setDBNo"
    /\ out.err = "nil"
    /\ out.db = U64(7)
    /\ dbno = U64(1)
    /\ ByteAt(2) = opResizeDB
    /\ rd.pos < Len(src)
    /\ ByteAt(rd.pos) = opEOF

(***************************************************************************)
(* A source opened twice: a session over the source, then a second         *)
(* session over a source with the same bytes, each with a reader of its    *)
(* own; what the calls of each session return is logged.                   *)
(***************************************************************************)
TwoChunks ==
    { <<250, 1, 97, 1, 98>>,                        \* aux field "a" -> "b"
      <<254, 1>>,                                   \* select database 1
      <<254, 2, 251, 2, 3>>,                        \* select database 2, resize hint
      <<254, 3, 2, 0, 0>>,                          \* select database 3, set ""
      <<252, 5>>,                                   \* expire in 5 ms
      <<1, 2, 107, 101, 2, 1, 97, 192, 64>>,        \* list "ke": "a", special
      <<2, 0, 0>>,                                  \* set "": no elements
      <<0, 1, 107>>,                                \* string "k" ...
      <<255>> }                                     \* end of stream

TwoBodies ==
    {Flatten(chs) : chs \in UNION {[1..k -> TwoChunks] : k \in 0..MaxChunks}}

InitTwo ==
    /\ src \in {Header \o b : b \in TwoBodies} \cup {<<>>, <<82, 69, 68>>}
    /\ rd = NewBufio
    /\ sess = "none"
    /\ Version = 0
    /\ Metadata = {}
    /\ dbno = Zero64
    /\ out = NoOut
    /\ hist = NoHist

\* what the caller has in hand after a call: the values returned and the
\* Reader's exported fields
Returned == <<[out EXCEPT !.from = Nil, !.kv = Nil, !.tag = -1], Version, Metadata>>

OpenLogged ==
    /\ sess = "none"
    /\ newReaderReturned(NewReader(rd))
    /\ hist' = [hist EXCEPT !.cur = Append(@, Returned')]
    /\ UNCHANGED src

ReadLogged ==
    /\ sess = "open"
    /\ Len(hist.cur) <= MaxReads
    /\ readReturned(ReaderRead(rd, dbno))
    /\ UNCHANGED <<src, sess>>
    /\ hist' = [hist EXCEPT !.cur = Append(@, Returned')]

\* the second session: NewReader is about to be called on a new source with
\* the same bytes; the first session's Reader is left as it is
Reopen ==
    /\ ~hist.twice
    /\ sess # "none"
    /\ hist' = [twice |-> TRUE, first |-> hist.cur, cur |-> <<>>]
    /\ rd' = NewBufio
    /\ sess' = "none"
    /\ UNCHANGED <<src, Version, Metadata, dbno, out>>

NextTwo == OpenLogged \/ ReadLogged \/ Reopen

SpecTwo == InitTwo /\ [][NextTwo]_vars

C21_ReadKeepsVersionAndMetadata ==
    (hist.cur # <<>> /\ hist.cur[1][1].err = "nil")
    => \A k \in 1..Len(hist.cur) :
          /\ hist.cur[k][2] = hist.cur[1][2]
          /\ hist.cur[k][3] = hist.cur[1][3]

\* metadata from the header, a record read in a database selected by the
\* same Read, then a Read that fails on an auxiliary opcode
C21_Witness ==
    /\ Len(hist.cur) >= 3
    /\ hist.cur[1][3] # {}
    /\ hist.cur[2][1].err = "nil"
    /\ hist.cur[2][1].db # Zero64
    /\ out.op = "Read"
    /\ out.err = "ErrNotSupported"
    /\ out.tag = opAux
    /\ Metadata # {}

(***************************************************************************)
(* C22. Every failing setDBNo leaves the session's database number as it   *)
(* was: the new number is assigned only after the select opcode, the       *)
(* database number, the lookahead byte and, if present, both resize-hint   *)
(* integers have been read.  In particular, when the database number has   *)
(* been decoded and the source ends right after it (0xFE 0x01 and nothing  *)
(* more), the call fails with io.EOF and keeps the old number.             *)
(***************************************************************************)
\* the source holds a select opcode and a whole database number at offset
\* p, and ends there
EndsAfterNumber(p) ==
    /\ Len(src) >= p + 2
    /\ ByteAt(p) = opSelectDB
    /\ IsPlain(ByteAt(p + 1)) \/ IsSpecial(ByteAt(p + 1))
    /\ IntEnd(p + 1) = Len(src)

C22_FailedSelectKeepsNumber ==
    /\ (out.op = "setDBNo" /\ out.err # "nil") => dbno = out.db
    /\ (/\ out.op = "setDBNo"
        /\ EndsAfterNumber(out.from.pos)
        /\ rd.pos = Len(src))           \* the number was read to its end
       => out.err = "EOF" /\ dbno = out.db

\* the number and the resize opcode read, the source cut in the hints, in a
\* session that was in database 7
C22_Witness ==
    /\ out.op = "setDBNo"
    /\ out.err = "EOF"
    /\ out.db = U64(7)
    /\ dbno = U64(7)
    /\ Len(src) >= 3
    /\ ByteAt(IntEnd(1)) = opResizeDB
    /\ IntValue(1) # U64(7)
    /\ rd.pos > IntEnd(1)

(***************************************************************************)
(* C23. readStringEncodedValue, and the 4- and 8-byte integer forms of     *)
(* readLenghtEncodedValue, succeed whenever the source holds the declared  *)
(* number of bytes after the prefix, however many of them the buffered     *)
(* reader hands over in one read; io.EOF or ErrFormat for a short body is  *)
(* returned only when the source ends before the declared number of bytes. *)
(***************************************************************************)
\* the source starts with a 32- or 64-bit integer and holds all of it
WideIntegerThere == src[1] \in {128, 129} /\ Len(src) >= IntEnd(0)

\* the source starts with a string, plain or special, and holds all of it
StringThere ==
    /\ IsPlain(src[1]) \/ IsSpecial(src[1])
    /\ Len(src) >= IntEnd(0)
    /\ Fits(IntValue(0))
    /\ Len(src) >= StrEnd(0)

C23_WholeBodySucceeds ==
    /\ (out.op = "readLenght" /\ WideIntegerThere) => out.err = "nil"
    /\ (out.op = "readString" /\ StringThere) => out.err = "nil"

\* the same, for the calls that find the whole body in the reader's buffer,
\* or the buffer empty when the body is read
C23_WholeBodySucceedsBuffered ==
    /\ (/\ out.op = "readLenght"
        /\ WideIntegerThere
        /\ (out.from.w >= IntEnd(0) \/ out.from.w <= 1))
       => out.err = "nil"
    /\ (/\ out.op = "readString"
        /\ StringThere
        /\ (out.from.w >= StrEnd(0) \/ out.from.w <= 1 \/ out.from.w = IntEnd(0)))
       => out.err = "nil"

\* a 64-bit integer all there in the source, part of it in the buffer
C23_Witness ==
    /\ out.op = "readLenght"
    /\ src[1] = 129
    /\ Len(src) >= 9
    /\ out.from.w \in 2..8
    /\ out.err = "ErrFormat"

(***************************************************************************)
(* C24. The cursor only moves forward: over any sequence of NewReader and  *)
(* Read calls the stream position at the end of a call is at or after the  *)
(* position at its start; within a call the decoder steps back one byte at *)
(* a time at most, and only right after it has read that one byte (the     *)
(* lookahead byte given back), never after a read of several bytes and     *)
(* never twice in a row.                                                   *)
(***************************************************************************)
C24_ForwardOnly ==
    out.op \in {"NewReader", "Read"}
    => /\ rd.pos >= out.from.pos
       /\ rd.last # "bad"

\* a Read after a header with metadata: it selects a database with no resize
\* hint and reads a record with no expiry, so that readMetadata, setDBNo and
\* readKeyValuePair have each given their lookahead byte back
C24_Witness ==
    /\ out.op = "Read"
    /\ out.err = "nil"
    /\ Metadata # {}
    /\ ByteAt(out.from.pos) = opSelectDB
    /\ ByteAt(IntEnd(out.from.pos + 1)) # opResizeDB
    /\ out.kv.pos = IntEnd(out.from.pos + 1)
    /\ ~HasExpiry(out.kv.pos)
    /\ rd.pos > out.kv.pos

(***************************************************************************)
(* A session whose caller goes on calling: NewReader, then Read again and  *)
(* again, whatever the calls return.  The caller stops only where a call   *)
(* changes nothing any more: this is WF_vars(Next) with ENABLED <<Next>>_vars *)
(* written out as ~Idle.                                                   *)
(***************************************************************************)
\* no call is left that changes anything: NewReader has failed, or the last
\* Read failed and left the reader where it found it
Idle ==
    \/ sess = "failed"
    \/ sess = "open" /\ out.op = "Read" /\ out.err # "nil" /\ out.from = rd

SpecLive == InitTwo /\ [][Next]_vars /\ ([]<><<Next>>_vars \/ <>[]Idle)

(***************************************************************************)
(* C25. Progress and termination: every successful Read moves the cursor   *)
(* forward, by the tag byte, the key prefix and the element count at       *)
(* least, so a source of N bytes yields fewer than N records, and Read     *)
(* called again and again comes to return an error or the end of the data  *)
(* and no more records.                                                    *)
(***************************************************************************)
C25_ProgressAndTermination ==
    /\ []((out.op = "Read" /\ out.err = "nil")
          => /\ rd.pos >= out.from.pos + 3
             /\ rd.pos <= Len(src))
    /\ <>[](sess = "open" => (out.op = "Read" /\ out.err # "nil"))

\* the records a session has logged are fewer than the bytes of its source
C25_RecordsFewerThanBytes ==
    LET reads == {k \in 2..Len(hist.cur) : hist.cur[k][1].err = "nil"}
    IN  reads # {} => 9 + 3 * Cardinality(reads) <= Len(src)

\* a Read finds the source at its end: the header, a select and two empty
\* sets are behind it
C25_Witness ==
    /\ out.op = "Read"
    /\ out.err = "EOF"
    /\ out.from.pos = Len(src)
    /\ rd.pos = Len(src)
    /\ Span(9, Len(src)) = <<254, 3, 2, 0, 0, 2, 0, 0>>
    /\ dbno = U64(3)

(***************************************************************************)
(* C26. For every input every call returns, with a result or an error      *)
(* value: no decode step aborts (panics).  In particular a declared        *)
(* element count or string length far beyond the bytes that are left (up   *)
(* to 2^64-1 in the 64-bit form) ends in an error return, not in an        *)
(* attempt to allocate the declared size.                                  *)
(***************************************************************************)
C26_NoCallPanics == out.err # "panic"

\* the same, for the inputs that do not start with the 64-bit form
C26_NoCallPanicsBelow64 == src[1] # 129 => out.err # "panic"

\* a list that announces more elements than can be allocated
C26_Witness ==
    /\ out.op = "readList"
    /\ src[1] = 129
    /\ Len(src) >= 9
    /\ MakeSlicePanics(BeValue(1, 8), 24)
    /\ out.err = "panic"

(***************************************************************************)
(* C27. The seconds of an expiry are made milliseconds without wrapping:   *)
(* for every seconds value t the expire-seconds opcode carries (any        *)
(* unsigned 64-bit value in the 64-bit form) the TTL Read returns is       *)
(* t * 1000 as a mathematical integer, so that t # 0 never gives a TTL     *)
(* below t or a TTL of 0, the value that stands for no expiry.             *)
(***************************************************************************)
\* the seconds of the expiry of the record at offset p
Seconds(p) == IntValue(p + 1)

C27_SecondsTimes1000 ==
    (out.op = "Read" /\ out.err = "nil" /\ ByteAt(out.kv.pos) = opExpiretime)
    => /\ <<0>> \o out.ttl = MulWide(Seconds(out.kv.pos), 1000)
       /\ Seconds(out.kv.pos) # Zero64
          => /\ out.ttl # Zero64
             /\ ~Gt64(Seconds(out.kv.pos), out.ttl)

\* the same, for the seconds values whose product with 1000 is below 2^64
C27_SecondsTimes1000Small ==
    (/\ out.op = "Read"
     /\ out.err = "nil"
     /\ ByteAt(out.kv.pos) = opExpiretime
     /\ MulWide(Seconds(out.kv.pos), 1000)[1] = 0)
    => /\ <<0>> \o out.ttl = MulWide(Seconds(out.kv.pos), 1000)
       /\ Seconds(out.kv.pos) # Zero64
          => /\ out.ttl # Zero64
             /\ ~Gt64(Seconds(out.kv.pos), out.ttl)

\* a list or set read whose TTL is not its seconds times 1000
C27_Witness ==
    /\ out.op = "Read"
    /\ out.err = "nil"
    /\ out.vt \in {List, Set}
    /\ ByteAt(out.kv.pos) = opExpiretime
    /\ ByteAt(out.kv.pos + 1) = 129
    /\ <<0>> \o out.ttl # MulWide(Seconds(out.kv.pos), 1000)

====
